---- MODULE Spec2Model ----
(***************************************************************************)
(* Booking engine of src/HP4.py: the "schedule" and "bookings" worksheets  *)
(* and the four engine operations add_booking, remove_booking,             *)
(* admin_create_slot and admin_delete_slot, together with the read-time    *)
(* join load_data.                                                         *)
(*                                                                         *)
(* A worksheet is the sequence of its data rows (sheet row 1 is the header *)
(* row, so data row i is sheet row i + 1).  The booked_at column is        *)
(* written by add_booking and read by nothing; it is left out of the rows. *)
(***************************************************************************)
EXTENDS Integers, Sequences, FiniteSets, TLC

\* ------------------------------------------------------------------ bounds
\* Largest slot id admin_create_slot issues when the calls run one at a time;
\* also the largest slot id a call is made with.
MaxId == 2
\* Largest number of data rows of the bookings worksheet when the calls run
\* one at a time.
MaxBook == 3
\* Largest number of add_booking calls racing on one slot.
MaxRacers == 3

\* ------------------------------------------------------------------ inputs
\* Member names are texts get_all_records returns as they were written (no
\* numeric text, which it would turn into a number).
Members == {"A", "B"}
Capacities == {1, 2}
Dates == <<"2025-12-02">>
Times == <<"10:00">>
Comments == {""}
SlotIds == 1..MaxId

\* Outcomes of the engine operations (the message of the returned pair).
OkBooked == "Booked"                \* (True,  "予約しました")
AlreadyBooked == "AlreadyBooked"    \* (False, "既に予約済みです")
SlotNotFound == "SlotNotFound"      \* (False, "予約枠が見つかりません")
SlotFull == "SlotFull"              \* (False, "満席です")
SystemError == "SystemError"        \* (False, "システムエラー: ...")
OkCancelled == "Cancelled"          \* (True,  "キャンセルしました")
BookingNotFound == "BookingNotFound" \* (False, "予約が見つかりませんでした")
OkCreated == "Created"              \* (True,  "作成しました")
OkDeleted == "Deleted"              \* (True,  "削除しました")
RemoveError == "RemoveError"        \* (False, "エラー: ...")
AdminError == "AdminError"          \* (False, str(e))

VARIABLES sched, book, last, pre, pc, loc, overlap

vars == <<sched, book, last, pre, pc, loc, overlap>>

\* The sessions: where each call in flight stands, what it has read, and
\* which kinds of call have been overlapped ("add", "create": by a call of
\* the same kind; "remove": by a delete of a bookings row) or have failed
\* part-way ("partial" with the slot id: an admin_delete_slot).
sessions == <<pc, loc, overlap>>

\* ------------------------------------------------------- store and helpers
\* str(x) of an integer cell or argument.
Str(n) == ToString(n)

\* The texts of the cells of one schedule row, in column order
\* [id, date, time, capacity, comment] (the order admin_create_slot appends).
CellTexts(r) == <<Str(r.id), r.date, r.time, Str(r.capacity), r.comment>>

RowHas(r, q) == \E c \in 1..5 : CellTexts(r)[c] = q

\* ws_sched.find(q): the sheet row of the first cell, scanning row by row,
\* whose text equals q; 0 stands for None.  The header cells are column
\* names and equal no str(slot_id).
Find(sch, q) ==
  IF \E i \in 1..Len(sch) : RowHas(sch[i], q)
  THEN 1 + (CHOOSE i \in 1..Len(sch) :
              RowHas(sch[i], q) /\ \A j \in 1..(i - 1) : ~RowHas(sch[j], q))
  ELSE 0

\* ws.delete_rows(n): sheet row n is removed and the rows below move up; a
\* row below the last data row is blank and its removal changes no data.
DeleteRows(rows, n) ==
  IF n >= 2 /\ n - 1 <= Len(rows)
  THEN [i \in 1..(Len(rows) - 1) |-> IF i < n - 1 THEN rows[i] ELSE rows[i + 1]]
  ELSE rows

\* ws.append_row(values)
AppendRow(rows, r) == Append(rows, r)

\* df_book['appointment_id'].astype(str) == appt_id_str
IdMatches(r, s) == Str(r.appointment_id) = Str(s)

\* A comparison that skips the string normalisation never matches a stored
\* id against the text of the argument.
HasBookingRaw(bk, s, m) == FALSE

\* add_booking step 1: the duplicate check.
HasBooking(bk, s, m) ==
  \E i \in 1..Len(bk) : IdMatches(bk[i], s) /\ bk[i].user_name = m

\* A count of every row of the bookings frame, whatever its slot.
CountAllRows(bk, s) == Len(bk)

\* len(df_book[df_book['appointment_id'].astype(str) == appt_id_str])
CountBookings(bk, s) == Cardinality({i \in 1..Len(bk) : IdMatches(bk[i], s)})

\* df_sched[df_sched['id'].astype(str) == appt_id_str], as data row indexes.
Target(sch, s) == {i \in 1..Len(sch) : Str(sch[i].id) = Str(s)}

\* target.iloc[0]
First(S) == CHOOSE i \in S : \A j \in S : i <= j

\* max(ids)
Max(S) == CHOOSE i \in S : \A j \in S : j <= i

\* The capacity test with the comparison off by one.
IsFullOffByOne(count, capacity) == count > capacity

\* current_count >= capacity
IsFull(count, capacity) == count >= capacity

\* add_booking, lines 186-203, on what the two reads returned: dup and count
\* come from the bookings read, sch from the schedule read.  An empty
\* schedule frame has no 'id' column, so the lookup raises and the handler
\* returns the system error.
AddDecide(dup, count, sch, s) ==
  IF dup THEN AlreadyBooked
  ELSE IF Len(sch) = 0 THEN SystemError
  ELSE IF Target(sch, s) = {} THEN SlotNotFound
  ELSE IF IsFull(count, sch[First(Target(sch, s))].capacity) THEN SlotFull
  ELSE OkBooked

\* add_booking on one consistent pair of reads.
AddOutcome(bk, sch, s, m) ==
  AddDecide(HasBooking(bk, s, m), CountBookings(bk, s), sch, s)

\* A scan that forgets the header row (i + 1 instead of i + 2).
RowToDeleteNoHeader(bk, s, m) ==
  IF HasBooking(bk, s, m)
  THEN First({i \in 1..Len(bk) : IdMatches(bk[i], s) /\ bk[i].user_name = m})
  ELSE 0

\* A scan that compares the appointment id only and not the member.
RowToDeleteById(bk, s, m) ==
  IF \E i \in 1..Len(bk) : IdMatches(bk[i], s)
  THEN 1 + First({i \in 1..Len(bk) : IdMatches(bk[i], s)})
  ELSE 0

\* A scan without the break, which ends on the last matching record.
RowToDeleteLast(bk, s, m) ==
  IF HasBooking(bk, s, m)
  THEN 1 + Max({i \in 1..Len(bk) : IdMatches(bk[i], s) /\ bk[i].user_name = m})
  ELSE 0

\* remove_booking, lines 220-231: the sheet row of the first record matching
\* (appt_id, user_name), 0 for None.
RowToDelete(bk, s, m) ==
  IF HasBooking(bk, s, m)
  THEN 1 + First({i \in 1..Len(bk) : IdMatches(bk[i], s) /\ bk[i].user_name = m})
  ELSE 0

\* An id taken from the number of rows instead of the largest id.
NewIdByCount(sch) == Len(sch) + 1

\* An id taken from the first gap in the ids instead of above the largest.
NewIdFirstGap(sch) ==
  CHOOSE n \in 1..(Len(sch) + 1) :
    /\ \A i \in 1..Len(sch) : sch[i].id # n
    /\ \A k \in 1..(n - 1) : \E i \in 1..Len(sch) : sch[i].id = k

\* admin_create_slot, lines 247-255: ids are stored integers, so every one
\* passes str(val).isdigit().
NewId(sch) ==
  IF Len(sch) = 0 THEN 1 ELSE Max({sch[i].id : i \in 1..Len(sch)}) + 1

\* A cascade that runs only for a slot the schedule still holds.
RowsToDeleteOfLiveSlot(bk, s) ==
  IF \E k \in 1..Len(sched) : Str(sched[k].id) = Str(s)
  THEN {i + 1 : i \in {j \in 1..Len(bk) : IdMatches(bk[j], s)}}
  ELSE {}

\* admin_delete_slot, lines 271-277: the sheet rows of the bookings of the
\* slot, in reading order.
RowsToDelete(bk, s) == {i + 1 : i \in {j \in 1..Len(bk) : IdMatches(bk[j], s)}}

\* A cascade that walks the collected rows in ascending order.
NextRowAscending(rows) == CHOOSE r \in rows : \A q \in rows : r <= q

\* sorted(rows_to_delete, reverse=True): the next row the loop deletes.
NextRow(rows) == Max(rows)

RECURSIVE DeleteAll(_, _)
\* admin_delete_slot, lines 279-280, run to its end on a table nobody else
\* writes.
DeleteAll(bk, rows) ==
  IF rows = {} THEN bk
  ELSE DeleteAll(DeleteRows(bk, NextRow(rows)), rows \ {NextRow(rows)})

\* --------------------------------------------------------------- load_data
Rank(seq, x) == CHOOSE i \in 1..Len(seq) : seq[i] = x

\* The (date, time) order of df_sched.sort_values(by=["date", "time"]).
Before(a, b) ==
  \/ Rank(Dates, a.date) < Rank(Dates, b.date)
  \/ /\ a.date = b.date
     /\ Rank(Times, a.time) < Rank(Times, b.time)

RECURSIVE InsertSorted(_, _)
InsertSorted(sorted, r) ==
  IF sorted = <<>> THEN <<r>>
  ELSE IF Before(r, Head(sorted)) THEN <<r>> \o sorted
  ELSE <<Head(sorted)>> \o InsertSorted(Tail(sorted), r)

RECURSIVE SortRows(_)
SortRows(sch) ==
  IF sch = <<>> THEN <<>>
  ELSE InsertSorted(SortRows(SubSeq(sch, 1, Len(sch) - 1)), sch[Len(sch)])

RECURSIVE MembersOf(_, _)
\* matched['user_name'].tolist(), in stored order.
MembersOf(bk, s) ==
  IF bk = <<>> THEN <<>>
  ELSE IF IdMatches(Head(bk), s)
       THEN <<Head(bk).user_name>> \o MembersOf(Tail(bk), s)
       ELSE MembersOf(Tail(bk), s)

\* load_data(): the schedule rows in (date, time) order, each with the
\* members of the booking rows whose appointment id matches its id.  The
\* dates and times admin_create_slot stores are already in the form
\* normalize_date and normalize_time return.
LoadData(sch, bk) ==
  LET rows == SortRows(sch)
  IN  [i \in 1..Len(rows) |->
         [id |-> rows[i].id, date |-> rows[i].date, time |-> rows[i].time,
          capacity |-> rows[i].capacity, comment |-> rows[i].comment,
          members |-> MembersOf(bk, rows[i].id)]]

\* ------------------------------------------------------------------- state
Procs == 1..MaxRacers

NoCall == [op |-> "none", id |-> 0, member |-> "", date |-> "", time |-> "",
           capacity |-> 0, comment |-> "", ok |-> FALSE, msg |-> "",
           removed |-> 0]

\* A return that reports the slot-full failure whatever the call did.
ReturnedAsFull(op, s, m, ok, msg, removed) ==
  [NoCall EXCEPT !.op = op, !.id = s, !.member = m, !.ok = FALSE,
                 !.msg = SlotFull, !.removed = removed]

\* The call that returned last, what it returned, and how many booking rows
\* it removed.  When the calls run one at a time, pre holds the two tables
\* as that call found them.
Returned(op, s, m, ok, msg, removed) ==
  [NoCall EXCEPT !.op = op, !.id = s, !.member = m, !.ok = ok, !.msg = msg,
                 !.removed = removed]

\* The two tables as a call that runs alone finds them.
Tables(sch, bk) == [sched |-> sch, book |-> bk]

\* The locals of a call: its arguments and what its reads returned.
NoLocals == [id |-> 0, member |-> "", date |-> "", time |-> "", capacity |-> 0,
             comment |-> "", dup |-> FALSE, count |-> 0, row |-> 0, rows |-> {}]

Init ==
  /\ sched = <<>>
  /\ book = <<>>
  /\ last = NoCall
  /\ pre = Tables(<<>>, <<>>)
  /\ pc = [p \in Procs |-> "idle"]
  /\ loc = [p \in Procs |-> NoLocals]
  /\ overlap = {}

\* ----------------------------------------- the operations, one at a time
BookingRow(s, m) == [appointment_id |-> s, user_name |-> m]

\* add_booking(appt_id, user_name)
AddBooking(s, m) ==
  LET out == AddOutcome(book, sched, s, m)
  IN  /\ out = OkBooked => Len(book) < MaxBook
      /\ book' = IF out = OkBooked THEN AppendRow(book, BookingRow(s, m)) ELSE book
      /\ last' = Returned("add", s, m, out = OkBooked, out, 0)
      /\ pre' = Tables(sched, book)
      /\ UNCHANGED <<sched, sessions>>

\* remove_booking(appt_id, user_name)
RemoveBooking(s, m) ==
  LET row == RowToDelete(book, s, m)
  IN  /\ book' = IF row # 0 THEN DeleteRows(book, row) ELSE book
      /\ last' = IF row # 0 THEN Returned("remove", s, m, TRUE, OkCancelled, 1)
                 ELSE Returned("remove", s, m, FALSE, BookingNotFound, 0)
      /\ pre' = Tables(sched, book)
      /\ UNCHANGED <<sched, sessions>>

SlotRow(id, d, t, c, com) ==
  [id |-> id, date |-> d, time |-> t, capacity |-> c, comment |-> com]

\* admin_create_slot(date_obj, time_obj, capacity, comment)
AdminCreateSlot(d, t, c, com) ==
  /\ NewId(sched) <= MaxId
  /\ sched' = AppendRow(sched, SlotRow(NewId(sched), d, t, c, com))
  /\ last' = [op |-> "create", id |-> NewId(sched), member |-> "", date |-> d,
              time |-> t, capacity |-> c, comment |-> com, ok |-> TRUE,
              msg |-> OkCreated, removed |-> 0]
  /\ pre' = Tables(sched, book)
  /\ UNCHANGED <<book, sessions>>

\* admin_delete_slot(slot_id)
AdminDeleteSlot(s) ==
  LET cell == Find(sched, Str(s))
  IN  /\ sched' = IF cell # 0 THEN DeleteRows(sched, cell) ELSE sched
      /\ book' = DeleteAll(book, RowsToDelete(book, s))
      /\ last' = Returned("delete", s, "", TRUE, OkDeleted,
                           Len(book) - Len(DeleteAll(book, RowsToDelete(book, s))))
      /\ pre' = Tables(sched, book)
      /\ UNCHANGED sessions

Next ==
  \/ \E s \in SlotIds, m \in Members : AddBooking(s, m)
  \/ \E s \in SlotIds, m \in Members : RemoveBooking(s, m)
  \/ \E d \in {Dates[i] : i \in 1..Len(Dates)}, t \in {Times[i] : i \in 1..Len(Times)},
        c \in Capacities, com \in Comments : AdminCreateSlot(d, t, c, com)
  \/ \E s \in SlotIds : AdminDeleteSlot(s)

\* Single-writer execution: every call runs to its end before the next.
Spec == Init /\ [][Next]_vars

\* --------------------------------- the operations, one store call at a time
\* Every get_all_records, find, append_row and delete_rows is a call to the
\* store of its own; calls of other sessions may run between two of them.
\* A session is "off" (it runs nothing), "idle" (about to call), inside a
\* call, or "done".
Return(p, r) ==
  /\ last' = r
  /\ pc' = [pc EXCEPT ![p] = "done"]
  /\ loc' = [loc EXCEPT ![p] = NoLocals]
  /\ pre' = pre

Goto(p, at, l) ==
  /\ pc' = [pc EXCEPT ![p] = at]
  /\ loc' = [loc EXCEPT ![p] = l]
  /\ last' = last
  /\ pre' = pre

\* add_booking, line 179: the bookings read, from which the duplicate check
\* and the count are computed.
AddReadBook(p, s, m) ==
  /\ pc[p] = "idle"
  /\ Goto(p, "add_read_sched",
          [NoLocals EXCEPT !.id = s, !.member = m,
                           !.dup = HasBooking(book, s, m),
                           !.count = CountBookings(book, s)])
  /\ overlap' = IF \E q \in Procs \ {p} :
                      /\ pc[q] \in {"add_read_sched", "add_append"}
                      /\ loc[q].id = s /\ loc[q].member = m
                 THEN overlap \cup {"add"} ELSE overlap
  /\ UNCHANGED <<sched, book>>

\* add_booking, lines 180-203: the schedule read and the checks.
AddReadSched(p) ==
  /\ pc[p] = "add_read_sched"
  /\ LET out == AddDecide(loc[p].dup, loc[p].count, sched, loc[p].id)
     IN  IF out = OkBooked
         THEN Goto(p, "add_append", loc[p])
         ELSE Return(p, Returned("add", loc[p].id, loc[p].member, FALSE, out, 0))
  /\ UNCHANGED <<sched, book, overlap>>

\* add_booking, lines 210-212: the append.
AddAppend(p) ==
  /\ pc[p] = "add_append"
  /\ book' = AppendRow(book, BookingRow(loc[p].id, loc[p].member))
  /\ Return(p, Returned("add", loc[p].id, loc[p].member, TRUE, OkBooked, 0))
  /\ UNCHANGED <<sched, overlap>>

\* remove_booking, lines 220-231 and 236-237: the read and the scan.
RemReadBook(p, s, m) ==
  /\ pc[p] = "idle"
  /\ IF RowToDelete(book, s, m) # 0
     THEN Goto(p, "rem_delete",
               [NoLocals EXCEPT !.id = s, !.member = m,
                                !.row = RowToDelete(book, s, m)])
     ELSE Return(p, Returned("remove", s, m, FALSE, BookingNotFound, 0))
  /\ UNCHANGED <<sched, book, overlap>>

\* A delete_rows on the bookings by session p while a remove_booking of
\* another session stands between its read and its delete: the position
\* that call holds was computed on a table that has changed since.
Shifted(p) ==
  IF \E q \in Procs \ {p} : pc[q] = "rem_delete"
  THEN overlap \cup {"remove"} ELSE overlap

\* remove_booking, lines 234-235: the delete by position.
RemDelete(p) ==
  /\ pc[p] = "rem_delete"
  /\ book' = DeleteRows(book, loc[p].row)
  /\ Return(p, Returned("remove", loc[p].id, loc[p].member, TRUE, OkCancelled,
                         Len(book) - Len(DeleteRows(book, loc[p].row))))
  /\ overlap' = Shifted(p)
  /\ UNCHANGED sched

\* admin_create_slot, lines 247-255: the read of the ids.
CreateRead(p, d, t, c, com) ==
  /\ pc[p] = "idle"
  /\ Goto(p, "create_append",
          [NoLocals EXCEPT !.id = NewId(sched), !.date = d, !.time = t,
                           !.capacity = c, !.comment = com])
  /\ overlap' = IF \E q \in Procs \ {p} : pc[q] = "create_append"
                 THEN overlap \cup {"create"} ELSE overlap
  /\ UNCHANGED <<sched, book>>

\* admin_create_slot, lines 257-258: the append.
CreateAppend(p) ==
  /\ pc[p] = "create_append"
  /\ sched' = AppendRow(sched, SlotRow(loc[p].id, loc[p].date, loc[p].time,
                                       loc[p].capacity, loc[p].comment))
  /\ Return(p, [op |-> "create", id |-> loc[p].id, member |-> "",
                date |-> loc[p].date, time |-> loc[p].time,
                capacity |-> loc[p].capacity, comment |-> loc[p].comment,
                ok |-> TRUE, msg |-> OkCreated, removed |-> 0])
  /\ UNCHANGED <<book, overlap>>

\* admin_delete_slot, line 267: find.
DeleteFind(p, s) ==
  /\ pc[p] = "idle"
  /\ IF Find(sched, Str(s)) # 0
     THEN Goto(p, "delete_slot_row",
               [NoLocals EXCEPT !.id = s, !.row = Find(sched, Str(s))])
     ELSE Goto(p, "delete_read_book", [NoLocals EXCEPT !.id = s])
  /\ UNCHANGED <<sched, book, overlap>>

\* admin_delete_slot, line 268: the delete of the row find returned.
DeleteSlotRow(p) ==
  /\ pc[p] = "delete_slot_row"
  /\ sched' = DeleteRows(sched, loc[p].row)
  /\ Goto(p, "delete_read_book", [loc[p] EXCEPT !.row = 0])
  /\ UNCHANGED <<book, overlap>>

\* admin_delete_slot, lines 271-277 and 281: the bookings read.
DeleteReadBook(p) ==
  /\ pc[p] = "delete_read_book"
  /\ IF RowsToDelete(book, loc[p].id) # {}
     THEN Goto(p, "delete_cascade",
               [loc[p] EXCEPT !.rows = RowsToDelete(book, loc[p].id)])
     ELSE Return(p, Returned("delete", loc[p].id, "", TRUE, OkDeleted, 0))
  /\ UNCHANGED <<sched, book, overlap>>

\* admin_delete_slot, lines 279-281: one turn of the loop.
DeleteCascade(p) ==
  /\ pc[p] = "delete_cascade"
  /\ book' = DeleteRows(book, NextRow(loc[p].rows))
  /\ LET removed == loc[p].count + Len(book) - Len(book')
     IN  IF loc[p].rows = {NextRow(loc[p].rows)}
         THEN Return(p, Returned("delete", loc[p].id, "", TRUE, OkDeleted, removed))
         ELSE Goto(p, "delete_cascade",
                   [loc[p] EXCEPT !.rows = loc[p].rows \ {NextRow(loc[p].rows)},
                                  !.count = removed])
  /\ overlap' = Shifted(p)
  /\ UNCHANGED sched

\* ------------------------------------------- tables the sessions start from
\* Largest number of booking rows in a table the concurrent sessions start
\* from.
MaxInitBook == 1

\* Schedules of k slots created one after another (ids 1..k, any capacities).
InitScheds ==
  UNION {{[i \in 1..k |-> SlotRow(i, Dates[1], Times[1], caps[i], "")] :
            caps \in [1..k -> Capacities]} : k \in 0..MaxId}

\* Booking tables add_booking builds one call at a time on such a schedule:
\* rows of live slots, no pair twice, no slot over its capacity.
InitBooks(sch) ==
  {b \in UNION {[1..n -> {BookingRow(s, m) : s \in 1..Len(sch), m \in Members}] :
                  n \in 0..MaxInitBook} :
     /\ \A i, j \in 1..Len(b) : b[i] = b[j] => i = j
     /\ \A s \in 1..Len(sch) : CountBookings(b, s) <= sch[s].capacity}

\* The sessions that run a call; the others stay off.
Running(n) == [p \in Procs |-> IF p <= n THEN "idle" ELSE "off"]

\* Two sessions, each running one call of any kind, from any such tables.
InitConc ==
  /\ sched \in InitScheds
  /\ book \in InitBooks(sched)
  /\ last = NoCall
  /\ pre = Tables(<<>>, <<>>)
  /\ pc = Running(2)
  /\ loc = [p \in Procs |-> NoLocals]
  /\ overlap = {}

NextConc ==
  \E p \in Procs :
    \/ \E s \in SlotIds, m \in Members : AddReadBook(p, s, m)
    \/ AddReadSched(p)
    \/ AddAppend(p)
    \/ \E s \in SlotIds, m \in Members : RemReadBook(p, s, m)
    \/ RemDelete(p)
    \/ \E c \in Capacities : CreateRead(p, Dates[1], Times[1], c, "")
    \/ CreateAppend(p)
    \/ \E s \in SlotIds : DeleteFind(p, s)
    \/ DeleteSlotRow(p)
    \/ DeleteReadBook(p)
    \/ DeleteCascade(p)

\* Concurrent sessions: the store calls of two engine calls interleave.
SpecConc == InitConc /\ [][NextConc]_vars

\* The slot the racing add_booking calls are for.
RaceSlot == sched[1].id

\* n sessions, each running one add_booking for the same slot.
InitRace ==
  /\ sched \in {s \in InitScheds : Len(s) >= 1}
  /\ book \in InitBooks(sched)
  /\ last = NoCall
  /\ pre = Tables(<<>>, <<>>)
  /\ pc \in {Running(n) : n \in 1..MaxRacers}
  /\ loc = [p \in Procs |-> NoLocals]
  /\ overlap = {}

\* The racing sessions are interchangeable; they are numbered in the order
\* in which they begin their calls.
Begins(p) == \A q \in Procs : q < p => pc[q] # "idle"

NextRace ==
  \E p \in Procs :
    \/ \E m \in Members : Begins(p) /\ AddReadBook(p, RaceSlot, m)
    \/ AddReadSched(p)
    \/ AddAppend(p)

\* Racing reservations: n add_booking calls on one slot interleave.
SpecRace == InitRace /\ [][NextRace]_vars

\* ------------------------------------- tables concurrent calls have left
\* Largest number of booking rows in a table left by racing calls.
MaxLeftBook == 2

\* Booking tables that add_booking calls racing on live slots leave: any
\* pairs in any order, a pair possibly twice, a slot possibly beyond its
\* capacity.
LeftBooks(sch, max) ==
  UNION {[1..n -> {BookingRow(s, m) : s \in 1..Len(sch), m \in Members}] :
           n \in 0..max}

\* Two sessions, each about to cancel a booking or delete a slot, on such
\* tables.
InitLeft ==
  /\ sched \in {s \in InitScheds : Len(s) >= 1}
  /\ book \in LeftBooks(sched, MaxLeftBook)
  /\ last = NoCall
  /\ pre = Tables(<<>>, <<>>)
  /\ pc = Running(2)
  /\ loc = [p \in Procs |-> NoLocals]
  /\ overlap = {}

NextLeft ==
  \E p \in Procs :
    \/ \E s \in SlotIds, m \in Members : RemReadBook(p, s, m)
    \/ RemDelete(p)
    \/ \E s \in SlotIds : DeleteFind(p, s)
    \/ DeleteSlotRow(p)
    \/ DeleteReadBook(p)
    \/ DeleteCascade(p)

\* Concurrent cancels and slot deletions after earlier races: the store
\* calls of two row-deleting engine calls interleave.
SpecLeft == InitLeft /\ [][NextLeft]_vars

\* Largest number of booking rows in a table left by racing calls on which
\* cancels then run one at a time.
MaxCancelBook == 3

InitCancel ==
  /\ sched \in {s \in InitScheds : Len(s) >= 1}
  /\ book \in LeftBooks(sched, MaxCancelBook)
  /\ last = NoCall
  /\ pre = Tables(sched, book)
  /\ pc = [p \in Procs |-> "idle"]
  /\ loc = [p \in Procs |-> NoLocals]
  /\ overlap = {}

NextCancel == \E s \in SlotIds, m \in Members : RemoveBooking(s, m)

\* Cancels one at a time after earlier races.
SpecCancel == InitCancel /\ [][NextCancel]_vars

\* ------------------------------------------------ store calls that fail
\* The engine operation a position belongs to.
OpAt(at) ==
  IF at \in {"add_read_sched", "add_append"} THEN "add"
  ELSE IF at = "rem_delete" THEN "remove"
  ELSE IF at = "create_append" THEN "create"
  ELSE "delete"

\* What the except clause of an operation returns.
ErrorOf(op) ==
  IF op = "add" THEN SystemError
  ELSE IF op = "remove" THEN RemoveError
  ELSE AdminError

\* The positions whose store call stands inside the try block of its
\* operation: the whole body of each of the four operations does.
TryBlock == {"idle", "add_read_sched", "add_append", "rem_delete",
             "create_append", "delete_slot_row", "delete_read_book",
             "delete_cascade"}

\* A try block that begins only after the connection and the first read.
CaughtAfterConnect(at) == at \in TryBlock \ {"idle"}

\* The exception a store call raises at this position is caught by the
\* except clause of the operation.
Caught(at) == at \in TryBlock

\* An exception leaves the call: caught, the call returns the failure pair;
\* uncaught, it reaches the caller.
Raise(p, op, s, m, removed) ==
  IF Caught(pc[p])
  THEN Return(p, Returned(op, s, m, FALSE, ErrorOf(op), removed))
  ELSE /\ pc' = [pc EXCEPT ![p] = "raised"]
       /\ loc' = [loc EXCEPT ![p] = NoLocals]
       /\ UNCHANGED <<last, pre>>

\* get_db_connection, wb.worksheet or the first read or find of an operation
\* raises (lines 175-179, 218-220, 245-247, 263-267).
FailConnect(p, op, s, m) ==
  /\ pc[p] = "idle"
  /\ Raise(p, op, s, m, 0)
  /\ UNCHANGED <<sched, book, overlap>>

\* The mark an admin_delete_slot(s) leaves when it fails past line 268.
Partial(s) == "partial " \o Str(s)

\* A later store call of an operation raises; the failed call leaves the
\* worksheets as they were.  An admin_delete_slot that fails at the bookings
\* read or in the loop has dealt with the slot row and not with all the
\* booking rows.
FailStore(p) ==
  /\ pc[p] \in TryBlock \ {"idle"}
  /\ Raise(p, OpAt(pc[p]), loc[p].id, loc[p].member,
           IF pc[p] = "delete_cascade" THEN loc[p].count ELSE 0)
  /\ overlap' = IF pc[p] \in {"delete_read_book", "delete_cascade"}
                 THEN overlap \cup {Partial(loc[p].id)} ELSE overlap
  /\ UNCHANGED <<sched, book>>

\* No other session is inside a call.
Alone(p) == \A q \in Procs \ {p} : pc[q] \notin TryBlock \ {"idle"}

NextFail ==
  \E p \in Procs :
    \/ /\ Alone(p)
       /\ \/ \E s \in SlotIds, m \in Members : AddReadBook(p, s, m)
          \/ \E s \in SlotIds, m \in Members : RemReadBook(p, s, m)
          \/ \E c \in Capacities : CreateRead(p, Dates[1], Times[1], c, "")
          \/ \E s \in SlotIds : DeleteFind(p, s)
          \/ \E s \in SlotIds, m \in Members : FailConnect(p, "add", s, m)
          \/ \E s \in SlotIds, m \in Members : FailConnect(p, "remove", s, m)
          \/ FailConnect(p, "create", 0, "")
          \/ \E s \in SlotIds : FailConnect(p, "delete", s, "")
    \/ AddReadSched(p)
    \/ AddAppend(p)
    \/ RemDelete(p)
    \/ CreateAppend(p)
    \/ DeleteSlotRow(p)
    \/ DeleteReadBook(p)
    \/ DeleteCascade(p)
    \/ FailStore(p)

\* Two sessions calling one after the other on a store whose calls can fail.
SpecFail == InitConc /\ [][NextFail]_vars

\* Largest number of booking rows in a table on which a slot deletion is
\* tried again after a failure.
MaxRetryBook == 2

\* Two sessions about to call admin_delete_slot one after the other; pre
\* keeps the tables the first call finds.
InitRetry ==
  /\ sched \in {s \in InitScheds : Len(s) >= 1}
  /\ book \in LeftBooks(sched, MaxRetryBook)
  /\ last = NoCall
  /\ pre = Tables(sched, book)
  /\ pc = Running(2)
  /\ loc = [p \in Procs |-> NoLocals]
  /\ overlap = {}

NextRetry ==
  \E p \in Procs :
    \/ /\ Alone(p)
       /\ \/ \E s \in SlotIds : DeleteFind(p, s)
          \/ \E s \in SlotIds : FailConnect(p, "delete", s, "")
    \/ DeleteSlotRow(p)
    \/ DeleteReadBook(p)
    \/ DeleteCascade(p)
    \/ FailStore(p)

\* Slot deletions one after the other on a store whose calls can fail.
SpecRetry == InitRetry /\ [][NextRetry]_vars

\* ================================================= claims, one at a time
\* The slot rows of the schedule whose id is s.
LiveRows(sch, s) == {i \in 1..Len(sch) : sch[i].id = s}

\* The booking rows of slot s and whether member m holds one, as the claims
\* speak of them.
RowsOf(bk, s) == {i \in 1..Len(bk) : bk[i].appointment_id = s}

IsBooked(bk, s, m) == \E i \in RowsOf(bk, s) : bk[i].user_name = m

AddReturned == last.op = "add"

\* The bookings table the last add_booking read: a successful call appended
\* exactly one row at the end, a failed one wrote nothing.
BookBeforeAdd == IF last.ok THEN SubSeq(book, 1, Len(book) - 1) ELSE book

\* C1: under one-at-a-time execution, right after a successful
\* add_booking(s, m) the number of booking rows of slot s is at most the
\* capacity of slot s.
C1_CapacityAfterAdd ==
  (AddReturned /\ last.ok) =>
    /\ LiveRows(sched, last.id) # {}
    /\ \A i \in LiveRows(sched, last.id) :
         Cardinality(RowsOf(book, last.id)) <= sched[i].capacity

\* A successful add_booking that filled a slot of capacity 2.
C1_Witness ==
  /\ AddReturned /\ last.ok
  /\ Cardinality(RowsOf(book, last.id)) = 2
  /\ \E i \in LiveRows(sched, last.id) : sched[i].capacity = 2

DeleteReturned == last.op = "delete" /\ last.ok

\* C2: right after admin_delete_slot(id) returned success, load_data()
\* returns no appointment whose id is id, whatever the other cells of the
\* schedule table hold.
C2_DeletedSlotGone ==
  DeleteReturned =>
    \A i \in DOMAIN LoadData(sched, book) : LoadData(sched, book)[i].id # last.id

\* C3: right after admin_delete_slot(id) returned success, the bookings
\* table holds no row whose appointment id is id.
C3_NoBookingAfterDelete ==
  DeleteReturned => RowsOf(book, last.id) = {}

\* A delete that removed two booking rows of the slot and left another
\* slot's booking in place.
C3_Witness == DeleteReturned /\ last.removed = 2 /\ Len(book) >= 1

\* C4: admin_delete_slot(id) called when no live slot has that id returns
\* success and changes neither the live slots nor the bookings of any live
\* slot.
C4_DeleteAbsentIsNoOp ==
  [][\A s \in SlotIds :
       (LiveRows(sched, s) = {} /\ AdminDeleteSlot(s)) =>
         /\ last'.ok
         /\ sched' = sched
         /\ \A i \in 1..Len(sched) :
              MembersOf(book', sched[i].id) = MembersOf(book, sched[i].id)]_vars

\* The appointments load_data() returns that carry the date, time, capacity
\* and comment of the last admin_create_slot call.
CreatedLike ==
  LET ap == LoadData(sched, book)
  IN  {i \in DOMAIN ap : /\ ap[i].date = last.date
                         /\ ap[i].time = last.time
                         /\ ap[i].capacity = last.capacity
                         /\ ap[i].comment = last.comment}

\* C5: right after admin_create_slot(d, t, c, comment) succeeded,
\* load_data() contains exactly one appointment with that date, time,
\* capacity and comment, and its member list is empty.
C5_CreateRoundTrip ==
  (last.op = "create" /\ last.ok) =>
    /\ Cardinality(CreatedLike) = 1
    /\ \A i \in CreatedLike : LoadData(sched, book)[i].members = <<>>

C10_SecondAddAlreadyBooked ==
  [][\A s \in SlotIds, m \in Members :
       ( /\ AddReturned /\ last.ok /\ last.id = s /\ last.member = m
         /\ AddBooking(s, m) )
       => (~last'.ok /\ last'.msg = AlreadyBooked /\ book' = book)]_vars

\* The second of two back-to-back reserves of one pair has returned.
C10_Witness ==
  /\ AddReturned /\ last.msg = AlreadyBooked
  /\ book # <<>>
  /\ book[Len(book)] = BookingRow(last.id, last.member)

\* C11: under one-at-a-time execution, a remove_booking(s, m) that directly
\* follows a successful remove_booking(s, m) returns the booking-not-found
\* outcome and deletes no row.
C11_SecondRemoveNotFound ==
  [][\A s \in SlotIds, m \in Members :
       ( /\ last.op = "remove" /\ last.ok /\ last.id = s /\ last.member = m
         /\ RemoveBooking(s, m) )
       => (~last'.ok /\ last'.msg = BookingNotFound /\ book' = book)]_vars

\* A cancel was refused for a pair that is not booked while the slot still
\* holds the booking of another member, and it removed nothing.
C11_Witness ==
  /\ last.op = "remove" /\ last.msg = BookingNotFound
  /\ pre.book = book
  /\ ~IsBooked(book, last.id, last.member)
  /\ RowsOf(book, last.id) # {}

\* C14: an add_booking(s, m) for an id s that no slot of the schedule has
\* returns the slot-not-found outcome in every reachable state, also when
\* the bookings table holds a row (s, m).
C14_AbsentSlotIsNotFound ==
  (AddReturned /\ LiveRows(sched, last.id) = {}) => last.msg = SlotNotFound

\* C18: a call that returned one of the failed outcomes already-booked,
\* slot-full, slot-not-found (add_booking) or booking-not-found
\* (remove_booking) left the schedule table and the bookings table exactly
\* as it found them.
C18_FailedCallIsNoOp ==
  ( /\ last.op \in {"add", "remove"} /\ ~last.ok
    /\ last.msg \in {AlreadyBooked, SlotFull, SlotNotFound, BookingNotFound} )
  => (sched = pre.sched /\ book = pre.book)

\* An add_booking was refused for an id no slot has while both tables held
\* rows, and both tables are as they were.
C18_Witness ==
  /\ AddReturned /\ last.msg = SlotNotFound
  /\ pre.sched # <<>> /\ pre.book # <<>>
  /\ sched = pre.sched /\ book = pre.book

RECURSIVE OtherRows(_, _)
\* The rows of bk whose appointment id is not s, in their stored order.
OtherRows(bk, s) ==
  IF bk = <<>> THEN <<>>
  ELSE IF Head(bk).appointment_id = s THEN OtherRows(Tail(bk), s)
       ELSE <<Head(bk)>> \o OtherRows(Tail(bk), s)

\* C19: under one-at-a-time execution, admin_delete_slot(id) removes exactly
\* the booking rows whose appointment id is id, wherever they stand, and
\* leaves every other booking row in place and in its stored order.
C19_CascadeRemovesExactlyTheSlotsRows ==
  DeleteReturned => book = OtherRows(pre.book, last.id)

\* A cascade took out the first and the third row of a table whose second
\* row belongs to another slot.
C19_Witness ==
  /\ DeleteReturned
  /\ Len(pre.book) = 3
  /\ pre.book[1].appointment_id = last.id
  /\ pre.book[2].appointment_id # last.id
  /\ pre.book[3].appointment_id = last.id
  /\ book = <<pre.book[2]>>

\* ============================================== claims, concurrent sessions
AllDone == \A p \in Procs : pc[p] \in {"done", "off"}

UniqueIds == \A i, j \in 1..Len(sched) : sched[i].id = sched[j].id => i = j

\* C12: the id admin_create_slot computes from the ids it read is 1 when
\* there is no slot and otherwise one above the largest id, never an unused
\* id below the largest; the row it appends carries that id.
C12_NewIdIsMaxPlusOne ==
  [][\A p \in Procs :
       /\ (pc[p] = "idle" /\ pc'[p] = "create_append") =>
            /\ \A i \in 1..Len(sched) : sched[i].id < loc'[p].id
            /\ \/ sched = <<>> /\ loc'[p].id = 1
               \/ \E i \in 1..Len(sched) : sched[i].id + 1 = loc'[p].id
       /\ (pc[p] = "create_append" /\ pc'[p] = "done") =>
            /\ Len(sched') = Len(sched) + 1
            /\ sched'[Len(sched')].id = loc[p].id]_vars

\* A slot was created with id 3 while id 1 was unused: slot 1 of the slots
\* 1 and 2 had been deleted before the create read the ids.
C12_Witness ==
  /\ AllDone
  /\ last.op = "create" /\ last.id = 3
  /\ Len(sched) = 2
  /\ sched[1].id = 2 /\ sched[2].id = 3

\* C13: whatever store call of add_booking, remove_booking,
\* admin_create_slot or admin_delete_slot fails, the call returns a pair
\* whose success flag is false and whose message is the error message of
\* the operation, and no exception reaches the caller.
C13_FailureIsReturned ==
  [][\A p \in Procs :
       ( /\ pc[p] \in TryBlock /\ pc'[p] \notin TryBlock
         /\ \/ last' = last
            \/ last'.msg \in {SystemError, RemoveError, AdminError}
         /\ \/ FailStore(p)
            \/ \E op \in {"add", "remove", "create", "delete"},
                  s \in {0} \cup SlotIds, m \in {""} \cup Members :
                  FailConnect(p, op, s, m) )
       => /\ pc'[p] = "done"
          /\ ~last'.ok
          /\ last'.msg \in {SystemError, RemoveError, AdminError}]_vars

\* An admin_delete_slot whose cascade failed after the slot row and one
\* booking row were removed has returned its failure pair.
C13_Witness ==
  /\ last.op = "delete" /\ ~last.ok /\ last.msg = AdminError
  /\ last.removed = 1
  /\ RowsOf(book, last.id) # {}
  /\ \A p \in Procs : pc[p] # "raised"

\* C6 as stated: no two live slots share an id in any reachable state, also
\* when admin_create_slot calls interleave their read and their append.
C6_UniqueIdsAlways == UniqueIds

\* C6 as amended: no two live slots share an id in any state reached without
\* an admin_create_slot call reading the ids while another one stands
\* between its read and its append.
C6_UniqueIdsUnlessCreatesOverlap == "create" \notin overlap => UniqueIds

\* Two admin_create_slot calls ran one after the other on a full-length
\* starting schedule.
C6_Witness ==
  /\ AllDone /\ overlap = {}
  /\ last.op = "create"
  /\ Len(sched) = MaxId + 2

UniquePairs ==
  \A i, j \in 1..Len(book) :
    ( /\ book[i].appointment_id = book[j].appointment_id
      /\ book[i].user_name = book[j].user_name ) => i = j

\* C7 as stated: at most one booking row per (slot id, member) pair in any
\* reachable state, also when two add_booking calls for the pair interleave
\* their duplicate check and their append.
C7_UniquePairsAlways == UniquePairs

\* C7 as amended: at most one booking row per (slot id, member) pair in any
\* state reached without an add_booking call for a pair reading the
\* bookings while another add_booking call for that pair stands between its
\* read and its append.
C7_UniquePairsUnlessAddsOverlap == "add" \notin overlap => UniquePairs

\* Two add_booking calls for one pair ran one after the other: the first
\* appended the row, the second was refused.
C7_Witness ==
  /\ AllDone /\ overlap = {}
  /\ last.op = "add" /\ last.msg = AlreadyBooked
  /\ Len(book) = MaxInitBook + 1
  /\ book[Len(book)] = BookingRow(last.id, last.member)

\* The number of add_booking calls of the race.
Racers == Cardinality({p \in Procs : pc[p] # "off"})

Quiet == \A p \in Procs : pc[p] \in {"off", "idle", "done"}

\* C15: in every state with no call in flight, whatever the interleaving of
\* the calls that led to it, every booking row carries the id of a slot of
\* the schedule.
C15_NoDanglingBooking ==
  Quiet => \A i \in 1..Len(book) : LiveRows(sched, book[i].appointment_id) # {}

\* The booking rows of the pair (s, m).
PairRows(bk, s, m) == {i \in RowsOf(bk, s) : bk[i].user_name = m}

\* C16 as stated: right after remove_booking(s, m) returned success, member
\* m holds no booking on slot s, whatever the interleaving and whatever
\* earlier racing add_booking calls left in the table.
C16_CancelledPairUnbooked ==
  (last.op = "remove" /\ last.ok) => ~IsBooked(book, last.id, last.member)

\* C16 as amended: a remove_booking(s, m) that succeeds leaves member m
\* without a booking on slot s when the pair has exactly one booking row and
\* no other call has deleted a bookings row between the read and the delete
\* of a remove_booking.
C16_CancelledPairUnbookedIfAlone ==
  [][\A p \in Procs :
       ( /\ pc[p] = "rem_delete"
         /\ "remove" \notin overlap
         /\ Cardinality(PairRows(book, loc[p].id, loc[p].member)) = 1
         /\ RemDelete(p) )
       => /\ last'.ok
          /\ ~IsBooked(book', loc[p].id, loc[p].member)]_vars

\* Both sessions have returned, no delete fell between a read and a delete
\* of a cancel, and the last cancel removed the only row of its pair from a
\* table that held another row.
C16_Witness ==
  /\ AllDone /\ "remove" \notin overlap
  /\ last.op = "remove" /\ last.ok /\ last.removed = 1
  /\ ~IsBooked(book, last.id, last.member)
  /\ book # <<>>

\* The table bk with its k-th data row taken out.
Without(bk, k) ==
  [i \in 1..(Len(bk) - 1) |-> IF i < k THEN bk[i] ELSE bk[i + 1]]

\* C17 as stated: whatever row-deleting call runs concurrently, the row a
\* remove_booking(s, m) deletes is a row of the pair (s, m); it never takes
\* out a booking of another slot or member.
C17_CancelDeletesOwnRow ==
  [][\A p \in Procs :
       (pc[p] = "rem_delete" /\ RemDelete(p)) =>
         \/ book' = book
         \/ \E k \in PairRows(book, loc[p].id, loc[p].member) :
              book' = Without(book, k)]_vars

\* C17 as amended: the row a remove_booking(s, m) deletes is a row of the
\* pair (s, m) when no other call has deleted a bookings row between the
\* read and the delete of a remove_booking.
C17_CancelDeletesOwnRowIfAlone ==
  [][\A p \in Procs :
       (pc[p] = "rem_delete" /\ "remove" \notin overlap /\ RemDelete(p)) =>
         \E k \in PairRows(book, loc[p].id, loc[p].member) :
           book' = Without(book, k)]_vars

\* A cancel removed its row after the other session had deleted slot 1 and
\* its bookings, with no delete between the read and the delete of the
\* cancel.
C17_Witness ==
  /\ AllDone /\ "remove" \notin overlap
  /\ last.op = "remove" /\ last.ok /\ last.removed = 1
  /\ sched # <<>> /\ sched[1].id # 1

\* ========================= claims, cancels one at a time after races
\* C20: under one-at-a-time execution, a successful remove_booking(s, m)
\* deletes exactly one booking row, the first row in stored order of the
\* pair (s, m); the booking count of slot s drops by exactly one, every
\* other booking row stays in place and the schedule table is unchanged.
C20_CancelDeletesFirstMatch ==
  (last.op = "remove" /\ last.ok) =>
    LET rows == PairRows(pre.book, last.id, last.member)
    IN  /\ rows # {}
        /\ \E k \in rows : /\ \A j \in rows : k <= j
                            /\ book = Without(pre.book, k)
        /\ Cardinality(RowsOf(book, last.id)) =
             Cardinality(RowsOf(pre.book, last.id)) - 1
        /\ sched = pre.sched

\* A cancel took out the first of two rows of its pair, which stood on both
\* sides of another member's row; the later row of the pair is still there.
C20_Witness ==
  /\ last.op = "remove" /\ last.ok
  /\ Len(pre.book) = 3
  /\ pre.book[1] = BookingRow(last.id, last.member)
  /\ pre.book[2] # BookingRow(last.id, last.member)
  /\ pre.book[3] = BookingRow(last.id, last.member)
  /\ book = <<pre.book[2], pre.book[3]>>

\* ================================ claims, a store whose calls can fail
\* C21: when an admin_delete_slot(id) has failed part-way and the next call
\* is an admin_delete_slot(id) that meets no store failure, no booking row
\* with appointment id id is left when that call returns, whether or not it
\* still found the slot.
C21_RetryCleansOrphans ==
  [][\A p \in Procs :
       ( /\ last.op = "delete" /\ ~last.ok
         /\ Partial(last.id) \in overlap
         /\ pc[p] \in {"delete_read_book", "delete_cascade"}
         /\ pc'[p] = "done"
         /\ last'.ok /\ last'.id = last.id )
       => RowsOf(book', last.id) = {}]_vars

\* A second admin_delete_slot(id) has returned success after the first one
\* failed in its loop: of the two booking rows of the slot the first call
\* removed one, the second call found the slot gone and removed the other.
C21_Witness ==
  /\ AllDone
  /\ DeleteReturned /\ Partial(last.id) \in overlap
  /\ Cardinality(RowsOf(pre.book, last.id)) = 2
  /\ last.removed = 1
  /\ LiveRows(sched, last.id) = {}
  /\ RowsOf(book, last.id) = {}

====
